---- MODULE Spec2Model ----
(***************************************************************************)
(* Model of TranslationUtils                                               *)
(* (src/client/app/services/translation-utils.service.js) and of its      *)
(* caller TranslationsShowController (src/unnamed/part_000).               *)
(*                                                                         *)
(* JavaScript values are tagged records.  An object is the sequence of    *)
(* its own enumerable properties in insertion order, which is the order   *)
(* for-in visits them in.  A processed leaf is the object                 *)
(* { _original, _translated }, exactly as in the source.                  *)
(***************************************************************************)
EXTENDS Integers, Sequences, FiniteSets, TLC

\* Largest number of keys (at all depths together) of translation.data.
MaxDataKeys == 2

\* Largest number of keys (at all depths together) of a fetched raw tree.
MaxLatestKeys == 2

\* Key names used in the locale trees.
Keys == {"a", "b"}

-----------------------------------------------------------------------------
(* JavaScript values *)

Undefined == [type |-> "undefined"]
Null == [type |-> "null"]
Str(s) == [type |-> "string", val |-> s]
Obj(es) == [type |-> "object", entries |-> es]
Entry(k, v) == [key |-> k, val |-> v]
EmptyObject == Obj(<< >>)
\* An exception in flight instead of a return value.
Throw(e) == [type |-> "throw", error |-> e]

IsObject(v) == v.type = "object"
IsThrow(v) == v.type = "throw"

\* typeof v: null is reported as 'object'.
TypeOf(v) == IF v.type = "null" THEN "object" ELSE v.type

\* ToBoolean(v), as used by !v and by a || b.
Truthy(v) ==
  CASE v.type = "undefined" -> FALSE
    [] v.type = "null" -> FALSE
    [] v.type = "string" -> v.val # ""
    [] OTHER -> TRUE

\* a || b
Or(a, b) == IF Truthy(a) THEN a ELSE b

\* The own enumerable string keys of an object, in for-in order.
OwnKeys(o) == IF IsObject(o) THEN [i \in 1..Len(o.entries) |-> o.entries[i].key] ELSE << >>

KeySet(o) == { OwnKeys(o)[i] : i \in 1..Len(OwnKeys(o)) }

\* o.hasOwnProperty(k) for an object or a string primitive o (the keys used
\* here are never 'length' nor an index, so a string has none of them).
HasOwnProperty(o, k) == IsObject(o) /\ k \in KeySet(o)

\* o[k]; a missing property reads as undefined.
Get(o, k) ==
  IF HasOwnProperty(o, k)
  THEN (CHOOSE e \in { o.entries[i] : i \in 1..Len(o.entries) } : e.key = k).val
  ELSE Undefined

\* o[k] = v: an existing property keeps its place, a new one goes last.
Put(o, k, v) ==
  IF HasOwnProperty(o, k)
  THEN Obj([i \in 1..Len(o.entries) |->
              IF o.entries[i].key = k THEN Entry(k, v) ELSE o.entries[i]])
  ELSE Obj(Append(o.entries, Entry(k, v)))

\* { _original: o, _translated: t }
LeafPair(o, t) == Obj(<<Entry("_original", o), Entry("_translated", t)>>)

-----------------------------------------------------------------------------
(* buildNewData *)

\* NewLeaf without the rule for empty strings.
NewLeaf_NoEmptyRule(data, key, value) ==
  IF HasOwnProperty(data, key)
  THEN [leaf |-> LeafPair(value, Get(Get(data, key), "_translated")), counted |-> 0]
  ELSE [leaf |-> LeafPair(value, Null), counted |-> 1]

\* NewLeaf that never takes a translation from data.
NewLeaf_NoCarry(data, key, value) ==
  IF value = Str("")
  THEN [leaf |-> LeafPair(value, Str("")), counted |-> 0]
  ELSE [leaf |-> LeafPair(value, Null), counted |-> 1]

\* NewLeaf that also counts a key whose translation in data is null.
NewLeaf_CountNull(data, key, value) ==
  IF value = Str("")
  THEN [leaf |-> LeafPair(value, Str("")), counted |-> 0]
  ELSE IF HasOwnProperty(data, key)
       THEN [leaf |-> LeafPair(value, Get(Get(data, key), "_translated")),
             counted |-> IF Get(Get(data, key), "_translated") = Null THEN 1 ELSE 0]
       ELSE [leaf |-> LeafPair(value, Null), counted |-> 1]

\* The leaf built for latestData[key] = value, and whether it was counted.
NewLeaf(data, key, value) ==
  IF value = Str("")
  THEN [leaf |-> LeafPair(value, Str("")), counted |-> 0]
  ELSE IF HasOwnProperty(data, key)
       THEN [leaf |-> LeafPair(value, Get(Get(data, key), "_translated")), counted |-> 0]
       ELSE [leaf |-> LeafPair(value, Null), counted |-> 1]

RECURSIVE BuildNewDataLoop(_, _, _, _, _)

\* buildNewDataRecursive(newData, data, latestData): newData as the call
\* leaves it, and the number of increments of newUntranslatedKeysCount.
BuildNewDataRecursive(newData, data, latestData) ==
  BuildNewDataLoop(newData, data, latestData, 1, 0)

\* The for-in loop of buildNewDataRecursive from its i-th key on.
BuildNewDataLoop(newData, data, latestData, i, count) ==
  IF i > Len(OwnKeys(latestData))
  THEN [newData |-> newData, newUntranslatedKeysCount |-> count]
  ELSE LET key == OwnKeys(latestData)[i]
           value == Get(latestData, key)
       IN IF TypeOf(value) = "object"
          THEN LET sub == BuildNewDataRecursive(EmptyObject,
                                                Or(Get(data, key), EmptyObject), value)
               IN BuildNewDataLoop(Put(newData, key, sub.newData), data, latestData,
                                   i + 1, count + sub.newUntranslatedKeysCount)
          ELSE LET new == NewLeaf(data, key, value)
               IN BuildNewDataLoop(Put(newData, key, new.leaf), data, latestData,
                                   i + 1, count + new.counted)

\* BuildNewData that fills a copy of data instead of a new object.
BuildNewData_OntoData(data, latestData) ==
  BuildNewDataRecursive(Or(data, EmptyObject), Or(data, EmptyObject), latestData)

BuildNewData(data, latestData) ==
  BuildNewDataRecursive(EmptyObject, Or(data, EmptyObject), latestData)

-----------------------------------------------------------------------------
(* statistics *)

RECURSIVE StatisticsLoop(_, _, _)

\* statisticsRecursive(data), adding to the counters in acc.
StatisticsRecursive(data, acc) == StatisticsLoop(data, 1, acc)

StatisticsLoop(data, i, acc) ==
  IF i > Len(OwnKeys(data))
  THEN acc
  ELSE LET child == Get(data, OwnKeys(data)[i])
       IN IF HasOwnProperty(child, "_translated")
          THEN LET t == Get(child, "_translated")
               IN IF t # Str("")
                  THEN StatisticsLoop(data, i + 1,
                         [overallCount |-> acc.overallCount + 1,
                          translatedCount |-> acc.translatedCount
                                              + (IF t # Null THEN 1 ELSE 0)])
                  ELSE StatisticsLoop(data, i + 1, acc)
          ELSE StatisticsLoop(data, i + 1, StatisticsRecursive(child, acc))

Statistics(data) ==
  StatisticsRecursive(data, [overallCount |-> 0, translatedCount |-> 0])

-----------------------------------------------------------------------------
(* unusedTranslatedKeysCount *)

RECURSIVE UnusedLoop(_, _, _, _)

\* unusedTranslatedKeysCountRecursive(data, latestData), adding to count.
UnusedTranslatedKeysCountRecursive(data, latestData, count) ==
  UnusedLoop(data, latestData, 1, count)

RECURSIVE UnusedLoop_Overall(_, _, _, _)
\* UnusedLoop that adds the overall count of a removed subtree.
UnusedLoop_Overall(data, latestData, i, count) ==
  IF i > Len(OwnKeys(data))
  THEN count
  ELSE LET key == OwnKeys(data)[i]
       IN IF HasOwnProperty(data, "_translated")
          THEN UnusedLoop_Overall(data, latestData, i + 1, count)
          ELSE IF HasOwnProperty(latestData, key)
               THEN UnusedLoop_Overall(data, latestData, i + 1,
                      UnusedTranslatedKeysCountRecursive(Get(data, key),
                                                         Get(latestData, key), count))
               ELSE UnusedLoop_Overall(data, latestData, i + 1,
                      count + Statistics(Obj(<<Entry(key, Get(data, key))>>)).overallCount)

\* The for-in loop of unusedTranslatedKeysCountRecursive from its i-th key on.
UnusedLoop(data, latestData, i, count) ==
  IF i > Len(OwnKeys(data))
  THEN count
  ELSE LET key == OwnKeys(data)[i]
       IN IF HasOwnProperty(data, "_translated")
          THEN UnusedLoop(data, latestData, i + 1, count)
          ELSE IF HasOwnProperty(latestData, key)
               THEN UnusedLoop(data, latestData, i + 1,
                      UnusedTranslatedKeysCountRecursive(Get(data, key),
                                                         Get(latestData, key), count))
               ELSE UnusedLoop(data, latestData, i + 1,
                      count + Statistics(Obj(<<Entry(key, Get(data, key))>>)).translatedCount)

UnusedTranslatedKeysCount(data, latestData) ==
  IF ~Truthy(data) THEN 0 ELSE UnusedTranslatedKeysCountRecursive(data, latestData, 0)

-----------------------------------------------------------------------------
(* processedDataToRaw *)

RECURSIVE ProcessedDataToRawLoop(_, _, _)

\* processedDataToRaw(processedData): the raw object, or the exception the
\* call ends with.  for-in visits nothing on null, undefined and ''; on a
\* non-empty string it visits the index '0', whose value is a one-character
\* string that has no _translated, so the call recurses on a non-empty
\* string again and again until the stack overflows (RangeError).
ProcessedDataToRaw(processedData) ==
  IF processedData.type = "string" /\ processedData.val # ""
  THEN Throw("RangeError")
  ELSE ProcessedDataToRawLoop(processedData, 1, EmptyObject)

RECURSIVE ProcessedDataToRawLoop_Original(_, _, _)
\* ProcessedDataToRawLoop that puts out _original instead of _translated.
ProcessedDataToRawLoop_Original(processedData, i, rawData) ==
  IF i > Len(OwnKeys(processedData))
  THEN rawData
  ELSE LET key == OwnKeys(processedData)[i]
           child == Get(processedData, key)
       IN IF child.type \in {"null", "undefined"}
          THEN Throw("TypeError")
          ELSE IF HasOwnProperty(child, "_translated")
               THEN ProcessedDataToRawLoop_Original(processedData, i + 1,
                                           Put(rawData, key, Get(child, "_original")))
               ELSE LET sub == ProcessedDataToRaw(child)
                    IN IF IsThrow(sub)
                       THEN sub
                       ELSE ProcessedDataToRawLoop_Original(processedData, i + 1,
                                                   Put(rawData, key, sub))

\* The for-in loop of processedDataToRaw from its i-th key on.
ProcessedDataToRawLoop(processedData, i, rawData) ==
  IF i > Len(OwnKeys(processedData))
  THEN rawData
  ELSE LET key == OwnKeys(processedData)[i]
           child == Get(processedData, key)
       IN IF child.type \in {"null", "undefined"}
          THEN Throw("TypeError")   \* child.hasOwnProperty of null
          ELSE IF HasOwnProperty(child, "_translated")
               THEN ProcessedDataToRawLoop(processedData, i + 1,
                                           Put(rawData, key, Get(child, "_translated")))
               ELSE LET sub == ProcessedDataToRaw(child)
                    IN IF IsThrow(sub)
                       THEN sub
                       ELSE ProcessedDataToRawLoop(processedData, i + 1,
                                                   Put(rawData, key, sub))

-----------------------------------------------------------------------------
(* untranslatedKeysGenerator *)

\* One suspended call of the generator: its data, the index of the next key
\* of its for-in loop, and its _chain.
Frame(d, c) == [data |-> d, i |-> 1, chain |-> c]

\* The generator object untranslatedKeysGenerator(data) returns: the stack of
\* suspended calls, the innermost (entered through yield*) last.
UntranslatedKeysGenerator(d) == <<Frame(d, << >>)>>

RECURSIVE GeneratorNext(_)

RECURSIVE GeneratorNext_EveryLeaf(_)
\* GeneratorNext that yields a leaf whatever its _translated is.
GeneratorNext_EveryLeaf(stack) ==
  IF stack = << >>
  THEN [stack |-> << >>, done |-> TRUE, value |-> Undefined]
  ELSE LET top == stack[Len(stack)]
           rest == SubSeq(stack, 1, Len(stack) - 1)
       IN IF top.i > Len(OwnKeys(top.data))
          THEN GeneratorNext_EveryLeaf(rest)
          ELSE LET key == OwnKeys(top.data)[top.i]
                   child == Get(top.data, key)
                   chain == Append(top.chain, key)
                   advanced == Append(rest, [top EXCEPT !.i = @ + 1])
               IN IF HasOwnProperty(child, "_translated")
                  THEN [stack |-> advanced, done |-> FALSE,
                        value |-> [key |-> child, chain |-> chain]]
                  ELSE GeneratorNext_EveryLeaf(Append(advanced, Frame(child, chain)))

\* next() on the generator: runs to the next yield or to the end.
GeneratorNext(stack) ==
  IF stack = << >>
  THEN [stack |-> << >>, done |-> TRUE, value |-> Undefined]
  ELSE LET top == stack[Len(stack)]
           rest == SubSeq(stack, 1, Len(stack) - 1)
       IN IF top.i > Len(OwnKeys(top.data))
          THEN GeneratorNext(rest)
          ELSE LET key == OwnKeys(top.data)[top.i]
                   child == Get(top.data, key)
                   chain == Append(top.chain, key)
                   advanced == Append(rest, [top EXCEPT !.i = @ + 1])
               IN IF HasOwnProperty(child, "_translated")
                  THEN IF Get(child, "_translated") = Null
                       THEN [stack |-> advanced, done |-> FALSE,
                             value |-> [key |-> child, chain |-> chain]]
                       ELSE GeneratorNext(advanced)
                  ELSE GeneratorNext(Append(advanced, Frame(child, chain)))

-----------------------------------------------------------------------------
(* Inputs *)

RECURSIVE EntriesOf(_, _, _)

\* The given leaves, and the objects over them with at most n keys in all.
NodesOf(leaves, n) == leaves \cup { Obj(es) : es \in EntriesOf(leaves, n, {}) }

\* The property lists with keys outside used and at most n keys in all.
EntriesOf(leaves, n, used) ==
  {<< >>} \cup
  IF n = 0 THEN {} ELSE
  UNION { UNION { UNION { { <<Entry(k, v)>> \o rest :
                              rest \in EntriesOf(leaves, n - 1 - i, used \cup {k}) }
                          : v \in NodesOf(leaves, i) }
                  : i \in 0..(n - 1) }
          : k \in Keys \ used }

\* Raw leaves: an empty and a non-empty locale string.
RawLeaves == { Str(""), Str("x") }

\* Processed leaves: the auto-resolved empty string, an untranslated key, a
\* translated key, and a key whose translation is the empty string.
ProcessedLeaves ==
  { LeafPair(Str(""), Str("")), LeafPair(Str("x"), Null),
    LeafPair(Str("x"), Str("t")), LeafPair(Str("x"), Str("")) }

RawTrees == { Obj(es) : es \in EntriesOf(RawLeaves, MaxLatestKeys, {}) }
ProcessedTrees == { Obj(es) : es \in EntriesOf(ProcessedLeaves, MaxDataKeys, {}) }

\* translation.data: a processed tree, or none yet.
DataInputs == ProcessedTrees \cup {Undefined, Null}

\* translation.sourceUrl
Urls == { Undefined, Str(""), Str("http://host/en.yml") }

\* What a response body can be: a YAML text of a raw tree, or a text that is
\* no YAML.
Documents ==
  { [valid |-> TRUE, content |-> t] : t \in RawTrees }
    \cup { [valid |-> FALSE, content |-> Undefined] }

\* yaml.safeLoad(text)
SafeLoad(doc) == IF doc.valid THEN doc.content ELSE Throw("YAMLException")

\* The key paths that can occur in a tree of the inputs.
Paths ==
  UNION { [1..n -> Keys] :
            n \in 0..(IF MaxDataKeys > MaxLatestKeys THEN MaxDataKeys ELSE MaxLatestKeys) }

RECURSIVE At(_, _)
\* The value at a key path of a tree, undefined when the path leaves the tree.
At(tree, path) ==
  IF path = << >> THEN tree ELSE At(Get(tree, Head(path)), Tail(path))

\* A translation pair, recognised as the source recognises it.
IsLeafPair(v) == HasOwnProperty(v, "_translated")
IsBranch(v) == IsObject(v) /\ ~IsLeafPair(v)

\* The node of a processed tree and all nodes below it.
NodesIn(tree) ==
  { At(tree, p) : p \in { q \in Paths : At(tree, q) # Undefined } }

-----------------------------------------------------------------------------
(* State *)

VARIABLES
  data,      \* translation.data
  url,       \* translation.sourceUrl
  http,      \* the $http.get request: whether issued, and its response
  promise,   \* the promise pullRemoteData returned
  ret,       \* the last call of statistics or processedDataToRaw
  gen        \* the untranslatedKeysGenerator in use and what it yielded

vars == <<data, url, http, promise, ret, gen>>

Init ==
  /\ data \in DataInputs
  /\ url \in Urls
  /\ http = [issued |-> FALSE, response |-> Undefined]
  /\ promise = [state |-> "none"]
  /\ ret = [op |-> "none"]
  /\ gen = [state |-> "none"]

\* The data parameter of pullRemoteData: data = {} when undefined is passed.
DataParameter == IF data = Undefined THEN EmptyObject ELSE data

\* PullRemoteData that does not look at the URL.
PullRemoteData_NoUrlCheck ==
  /\ promise.state = "none"
  /\ http' = [issued |-> TRUE, response |-> Undefined]
  /\ promise' = [state |-> "pending"]
  /\ UNCHANGED <<data, url, ret, gen>>

\* synchronizeWithRemote calls pullRemoteData(sourceUrl, data) up to the
\* return of its promise.
PullRemoteData ==
  /\ promise.state = "none"
  /\ IF ~Truthy(url)
     THEN /\ promise' = [state |-> "rejected", value |-> Str("You must provide a URL.")]
          /\ UNCHANGED http
     ELSE /\ http' = [issued |-> TRUE, response |-> Undefined]
          /\ promise' = [state |-> "pending"]
  /\ UNCHANGED <<data, url, ret, gen>>

\* The then-callback of pullRemoteData on a response.
OnResponse(response) ==
  LET remoteData == SafeLoad(response.data)
      built == BuildNewData(DataParameter, remoteData)
  IN IF IsThrow(remoteData)
     THEN [state |-> "rejected", value |-> remoteData]
     ELSE [state |-> "resolved",
           value |-> [newData |-> built.newData,
                      newUntranslatedKeysCount |-> built.newUntranslatedKeysCount,
                      unusedTranslatedKeysCount |->
                        UnusedTranslatedKeysCount(DataParameter, built.newData)]]

\* $http.get resolves and the then-callback runs.
HttpSuccess ==
  /\ promise.state = "pending"
  /\ \E doc \in Documents :
       LET response == [ok |-> TRUE, data |-> doc]
       IN /\ http' = [http EXCEPT !.response = response]
          /\ promise' = OnResponse(response)
  /\ UNCHANGED <<data, url, ret, gen>>

\* $http.get rejects: then() has no rejection handler, the failure passes on.
HttpFailure ==
  /\ promise.state = "pending"
  /\ LET response == [ok |-> FALSE, data |-> Str("Not Found")]
     IN /\ http' = [http EXCEPT !.response = response]
        /\ promise' = [state |-> "rejected", value |-> response]
  /\ UNCHANGED <<data, url, ret, gen>>

\* statistics(translation.data)
StatisticsCall ==
  /\ ret' = [op |-> "statistics", arg |-> data, value |-> Statistics(data)]
  /\ UNCHANGED <<data, url, http, promise, gen>>

\* processedDataToRaw(node), on translation.data (showRaw, download) or on a
\* node below it.
ProcessedDataToRawCall ==
  /\ \E node \in {data} \cup NodesIn(data) :
       ret' = [op |-> "processedDataToRaw", arg |-> node,
               value |-> ProcessedDataToRaw(node)]
  /\ UNCHANGED <<data, url, http, promise, gen>>

\* untranslatedKeysGenerator(translation.data)
GeneratorStart ==
  /\ gen.state = "none"
  /\ gen' = [state |-> "suspended", stack |-> UntranslatedKeysGenerator(data),
             yielded |-> << >>]
  /\ UNCHANGED <<data, url, http, promise, ret>>

\* next() on the generator.
GeneratorStep ==
  /\ gen.state = "suspended"
  /\ LET r == GeneratorNext(gen.stack)
     IN gen' = IF r.done
               THEN [gen EXCEPT !.state = "done", !.stack = r.stack]
               ELSE [gen EXCEPT !.stack = r.stack,
                                !.yielded = Append(@, r.value)]
  /\ UNCHANGED <<data, url, http, promise, ret>>

\* One synchronisation with the remote source.
Next == PullRemoteData \/ HttpSuccess \/ HttpFailure

Spec == Init /\ [][Next]_vars

\* Calls of the utilities on translation.data.
NextUtils ==
  StatisticsCall \/ ProcessedDataToRawCall \/ GeneratorStart \/ GeneratorStep

SpecUtils == Init /\ [][NextUtils]_vars

-----------------------------------------------------------------------------
(* Properties of one synchronisation (Spec) *)

Resolved == promise.state = "resolved"

\* The raw tree the response decoded to, and the parts of the result.
Fresh == http.response.data.content
NewData == promise.value.newData
NewCount == promise.value.newUntranslatedKeysCount
UnusedCount == promise.value.unusedTranslatedKeysCount

\* The paths of the leaves of the fresh tree, and of the non-empty ones.
FreshLeaves == { p \in Paths : At(Fresh, p).type = "string" }
FreshNonEmptyLeaves == { p \in FreshLeaves : At(Fresh, p) # Str("") }

Original(leaf) == Get(leaf, "_original")
Translated(leaf) == Get(leaf, "_translated")

\* C1 (key-set law): in the tree buildNewData returns, every key path of
\* the fresh tree is present and no other is; a path is a branch there iff
\* it is a branch in the fresh tree, with the same key set, and a leaf pair
\* iff it is a leaf in the fresh tree.
KeySetLaw ==
  Resolved =>
    \A p \in Paths :
      LET f == At(Fresh, p)
          m == At(NewData, p)
      IN /\ f = Undefined => m = Undefined
         /\ f.type = "string" => IsLeafPair(m) /\ KeySet(m) = {"_original", "_translated"}
         /\ IsObject(f) => IsBranch(m) /\ KeySet(m) = KeySet(f)

\* A merge where data has a key the fresh tree has not, and a leaf where the
\* fresh tree has a branch.
KeySetLawWitness ==
  /\ Resolved
  /\ KeySet(data) \ KeySet(Fresh) # {}
  /\ \E p \in Paths : IsLeafPair(At(data, p)) /\ IsObject(At(Fresh, p))
                      /\ KeySet(At(Fresh, p)) # {}

\* C2 as stated (new-count law): newUntranslatedKeysCount is the number of
\* non-empty leaves of the fresh tree whose path is absent in data or whose
\* leaf in data has a null translation.
NewCountLawAsStated ==
  Resolved =>
    NewCount = Cardinality({ p \in FreshNonEmptyLeaves :
                               \/ At(data, p) = Undefined
                               \/ /\ IsLeafPair(At(data, p))
                                  /\ Translated(At(data, p)) = Null })

\* C2 amended: newUntranslatedKeysCount is the number of non-empty leaves of
\* the fresh tree whose path is absent in data; a leaf that data holds with
\* a null translation is not counted.
NewCountLaw ==
  Resolved =>
    NewCount = Cardinality({ p \in FreshNonEmptyLeaves : At(data, p) = Undefined })

\* A merge with a counted new key and an uncounted key that data holds
\* untranslated.
NewCountLawWitness ==
  /\ Resolved
  /\ NewCount = 1
  /\ \E p \in FreshNonEmptyLeaves :
       IsLeafPair(At(data, p)) /\ Translated(At(data, p)) = Null

\* The paths at which a translation is carried forward.
Carried ==
  { p \in FreshNonEmptyLeaves :
      IsLeafPair(At(data, p)) /\ Translated(At(data, p)) # Null }

\* C5 (carry-forward law): where data has a leaf with a non-null translation
\* T and the fresh tree a non-empty leaf, the merged leaf has the fresh value
\* as original and T as translated, and these leaves are not among the
\* counted ones.
CarryForwardLaw ==
  Resolved =>
    /\ \A p \in Carried :
         /\ Original(At(NewData, p)) = At(Fresh, p)
         /\ Translated(At(NewData, p)) = Translated(At(data, p))
    /\ NewCount <= Cardinality(FreshNonEmptyLeaves) - Cardinality(Carried)

\* A merge that carries the translation 't' forward, next to a new key.
CarryForwardLawWitness ==
  /\ Resolved
  /\ \E p \in Carried : Translated(At(NewData, p)) = Str("t")
  /\ NewCount > 0

\* C6 (empty-string law): a leaf of the fresh tree with the value '' is
\* merged to original '' and translated '', whatever data holds there, and
\* is not among the counted ones.
EmptyStringLaw ==
  Resolved =>
    /\ \A p \in FreshLeaves \ FreshNonEmptyLeaves :
         /\ Original(At(NewData, p)) = Str("")
         /\ Translated(At(NewData, p)) = Str("")
    /\ NewCount <= Cardinality(FreshNonEmptyLeaves)

\* A merge of an empty fresh leaf over a translated leaf and of another over
\* nothing.
EmptyStringLawWitness ==
  /\ Resolved
  /\ \E p \in FreshLeaves \ FreshNonEmptyLeaves :
       IsLeafPair(At(data, p)) /\ Translated(At(data, p)) = Str("t")
  /\ \E p \in FreshLeaves \ FreshNonEmptyLeaves : At(data, p) = Undefined

\* Whether statistics counts the leaf as translated.
CountsAsTranslated(leaf) ==
  Statistics(Obj(<<Entry("k", leaf)>>)).translatedCount = 1

\* C4 (unused-count contract): unusedTranslatedKeysCount is the number of
\* leaves of data that statistics counts as translated and whose path does
\* not exist in the merged tree, be it the leaf's own key or a key above it
\* that is missing; it is 0 when data is absent.
UnusedCountContract ==
  Resolved =>
    /\ UnusedCount = Cardinality({ p \in Paths :
                                     /\ IsLeafPair(At(data, p))
                                     /\ CountsAsTranslated(At(data, p))
                                     /\ At(NewData, p) = Undefined })
    /\ ~IsObject(data) => UnusedCount = 0

\* data = { a: translated, b: translated } and a merged tree that has only
\* one of the two keys: the count is 1.
UnusedCountContractWitness ==
  /\ Resolved
  /\ KeySet(data) = {"a", "b"}
  /\ \A k \in {"a", "b"} : IsLeafPair(Get(data, k)) /\ Translated(Get(data, k)) = Str("t")
  /\ Cardinality(KeySet(NewData)) = 1
  /\ UnusedCount = 1

\* C8 (fail-fast and ordering): without a URL the promise is rejected with
\* no request issued and no merge; a result exists only after a successful
\* response with a decodable body; a failed request or decode ends in a
\* rejection carrying that failure.
ReconcileOrder ==
  /\ ~Truthy(url) => ~http.issued /\ promise.state \in {"none", "rejected"}
  /\ promise.state = "rejected" /\ ~Truthy(url) =>
       promise.value = Str("You must provide a URL.")
  /\ promise.state = "pending" => http.issued /\ http.response = Undefined
  /\ Resolved => /\ http.issued
                 /\ http.response # Undefined
                 /\ http.response.ok
                 /\ http.response.data.valid
                 /\ LET built == BuildNewData(DataParameter, Fresh)
                    IN promise.value =
                         [newData |-> built.newData,
                          newUntranslatedKeysCount |-> built.newUntranslatedKeysCount,
                          unusedTranslatedKeysCount |->
                            UnusedTranslatedKeysCount(DataParameter, built.newData)]
  /\ promise.state = "rejected" => "newData" \notin DOMAIN promise.value
  /\ http.response # Undefined =>
       /\ ~http.response.ok =>
            promise = [state |-> "rejected", value |-> http.response]
       /\ http.response.ok /\ ~http.response.data.valid =>
            promise = [state |-> "rejected", value |-> Throw("YAMLException")]

\* A call without a URL, rejected.
ReconcileOrderWitness ==
  /\ url = Str("")
  /\ promise.state = "rejected"
  /\ IsObject(data) /\ KeySet(data) # {}

\* The paths at which the fresh tree has a non-empty leaf and data a branch.
ShapeChanged == { p \in FreshNonEmptyLeaves : IsBranch(At(data, p)) }

RECURSIVE AllYielded(_)
\* Everything a generator yields from here to its end.
AllYielded(stack) ==
  LET r == GeneratorNext(stack)
  IN IF r.done THEN << >> ELSE <<r.value>> \o AllYielded(r.stack)

\* C10 (branch turned leaf): where the fresh tree has a non-empty leaf and
\* data a branch, the merged leaf has a null translation and is counted in
\* newUntranslatedKeysCount; untranslatedKeysGenerator yields it and
\* statistics does not count it as translated.
ShapeChangeRule ==
  Resolved =>
    /\ \A p \in ShapeChanged :
         /\ Translated(At(NewData, p)) = Null
         /\ \E i \in 1..Len(AllYielded(UntranslatedKeysGenerator(NewData))) :
              AllYielded(UntranslatedKeysGenerator(NewData))[i].chain = p
    /\ NewCount = Cardinality({ p \in FreshNonEmptyLeaves :
                                  At(data, p) = Undefined \/ p \in ShapeChanged })
    /\ Statistics(NewData).translatedCount
         <= Cardinality(FreshNonEmptyLeaves \ ShapeChanged)

-----------------------------------------------------------------------------
(* Properties of the utilities (SpecUtils) *)

\* The paths of the leaf pairs of a processed tree.
LeafPaths(tree) == { p \in Paths : IsLeafPair(At(tree, p)) }

\* C3 (statistics counting rule): overallCount is the number of leaves whose
\* original is not '', translatedCount the number of those whose translated
\* is not null, whatever else the translated value is.
StatisticsCountingRule ==
  ret.op = "statistics" =>
    /\ ret.value.overallCount
         = Cardinality({ p \in LeafPaths(ret.arg) : Original(At(ret.arg, p)) # Str("") })
    /\ ret.value.translatedCount
         = Cardinality({ p \in LeafPaths(ret.arg) :
                           /\ Original(At(ret.arg, p)) # Str("")
                           /\ Translated(At(ret.arg, p)) # Null })
    /\ ret.value.translatedCount <= ret.value.overallCount

\* The chains yielded so far.
Chains == [i \in 1..Len(gen.yielded) |-> gen.yielded[i].chain]

\* The paths of the leaves of data whose translation is null.
UntranslatedPaths == { p \in LeafPaths(data) : Translated(At(data, p)) = Null }

\* The place of key k among the keys of object o, in for-in order.
KeyIndex(o, k) == CHOOSE i \in 1..Len(OwnKeys(o)) : OwnKeys(o)[i] = k

\* Path p comes before path q in the depth-first pre-order of the tree: at
\* the first place they differ, p takes the earlier key.
Before(tree, p, q) ==
  \E d \in 1..Len(p) :
    /\ d <= Len(q)
    /\ SubSeq(p, 1, d - 1) = SubSeq(q, 1, d - 1)
    /\ p[d] # q[d]
    /\ KeyIndex(At(tree, SubSeq(p, 1, d - 1)), p[d])
         < KeyIndex(At(tree, SubSeq(p, 1, d - 1)), q[d])

\* C7 (untranslated-key enumeration): the generator yields leaves with a
\* null translation only, each with the key path to it as chain, none twice,
\* in depth-first pre-order of the key order; when it is done it has yielded
\* every such leaf.
UntranslatedKeyEnumeration ==
  gen.state # "none" =>
    /\ \A i \in 1..Len(gen.yielded) :
         /\ Chains[i] \in UntranslatedPaths
         /\ gen.yielded[i].key = At(data, Chains[i])
    /\ \A i, j \in 1..Len(gen.yielded) : i < j => Before(data, Chains[i], Chains[j])
    /\ Len(gen.yielded) <= Cardinality(UntranslatedPaths)
    /\ gen.state = "done" =>
         { Chains[i] : i \in 1..Len(gen.yielded) } = UntranslatedPaths

\* A finished enumeration of two untranslated leaves over a tree whose keys
\* are not in alphabetical order.
UntranslatedKeyEnumerationWitness ==
  /\ gen.state = "done"
  /\ Len(gen.yielded) = 2
  /\ Chains[1] = <<"b">>
  /\ Chains[2] = <<"a">>

\* What processedDataToRaw is to return for node: the translated value of a
\* leaf pair, and for a branch an object with the same keys at every depth
\* whose leaves are the translated values.
IsRawOf(raw, node) ==
  /\ ~IsThrow(raw)
  /\ \A p \in Paths :
       LET n == At(node, p)
           r == At(raw, p)
       IN /\ n = Undefined => r = Undefined
          /\ IsLeafPair(n) => r = Translated(n)
          /\ IsBranch(n) => IsObject(r) /\ KeySet(r) = KeySet(n)

\* C9 as stated: processedDataToRaw is total over every well-formed node, a
\* leaf pair or a mapping, at the root or below.
ProcessedToRawTotalAsStated ==
  ret.op = "processedDataToRaw" /\ IsObject(ret.arg) => IsRawOf(ret.value, ret.arg)

\* C9 amended: over every processed tree whose root is a mapping,
\* processedDataToRaw does not throw and returns the raw tree with the same
\* key set at every depth, every leaf pair below the root replaced by its
\* translated value (null when absent).
ProcessedToRawTotal ==
  ret.op = "processedDataToRaw" /\ IsBranch(ret.arg) => IsRawOf(ret.value, ret.arg)

\* A conversion of a tree with an untranslated leaf and a translated one.
ProcessedToRawTotalWitness ==
  /\ ret.op = "processedDataToRaw"
  /\ ret.arg = data
  /\ \E p \in LeafPaths(ret.arg) : At(ret.value, p) = Null
  /\ \E p \in LeafPaths(ret.arg) : At(ret.value, p) = Str("t")

====
